---- MODULE Spec2Model ----
(***************************************************************************)
(* A model of ol/source/ogcTileUtil.js: the collections query appender,   *)
(* the two URL-template selectors, the tile-matrix-set parser with the    *)
(* tile URL function it returns, and the tileset orchestrator.            *)
(*                                                                         *)
(* Strings that the code takes apart (URL templates, collection ids, axis *)
(* names) are sequences of tokens; strings the code only compares (media  *)
(* types, link relations, matrix ids) are TLA+ strings.                   *)
(***************************************************************************)
EXTENDS Integers, Sequences, FiniteSets, TLC

\* pc        where the call under study stands
\* input     the arguments of the call
\* output    what the last call returned or threw
\* errorLog  the messages passed to logError
\* fetches   the getJSON requests issued so far, with their states
\* info      the TileSetInfo built by parseTileMatrixSet
\* tileCoord the tile coordinate last passed to the URL function
VARIABLES pc, input, output, errorLog, fetches, info, tileCoord

vars == <<pc, input, output, errorLog, fetches, info, tileCoord>>

(***************************************************************************)
(* Bounds of the model.                                                    *)
(***************************************************************************)
MaxTemplateLen == 4
MaxLinks == 3
MaxLevels == 2

(***************************************************************************)
(* Generic helpers.                                                        *)
(***************************************************************************)
SeqsUpTo(S, n) == UNION {[1..k -> S] : k \in 0..n}

\* an optional JavaScript value: undefined, or a defined value v
None == [def |-> FALSE, v |-> <<>>]

Some(x) == [def |-> TRUE, v |-> x]

\* JavaScript truthiness of an optional string: undefined and "" are falsy
Truthy(m) == m.def /\ m.v # <<>>

\* the outcome of a call: a returned value or a thrown error
Return(x) == [threw |-> FALSE, value |-> x, error |-> ""]

Throw(e) == [threw |-> TRUE, value |-> <<>>, error |-> e]

\* no TileSetInfo yet
NoInfo == [state |-> "none"]

\* index of the first occurrence of token c in s, or 0
RECURSIVE IndexFrom(_, _, _)
IndexFrom(s, c, i) ==
  IF i > Len(s) THEN 0
  ELSE IF s[i] = c THEN i
  ELSE IndexFrom(s, c, i + 1)

IndexOf(s, c) == IndexFrom(s, c, 1)

\* String.prototype.split(sep) for a one-token separator: the list of pieces
RECURSIVE Split(_, _)
Split(s, sep) ==
  LET i == IndexOf(s, sep)
  IN IF i = 0 THEN <<s>>
     ELSE <<SubSeq(s, 1, i - 1)>> \o Split(SubSeq(s, i + 1, Len(s)), sep)

\* Array.prototype.join(sep) over a list of token strings
RECURSIVE Join(_, _)
Join(parts, sep) ==
  IF Len(parts) = 0 THEN <<>>
  ELSE IF Len(parts) = 1 THEN parts[1]
  ELSE parts[1] \o <<sep>> \o Join(Tail(parts), sep)

\* Array.prototype.includes
Includes(s, x) == \E i \in 1..Len(s) : s[i] = x

(***************************************************************************)
(* appendCollectionsQueryParam                                             *)
(***************************************************************************)
\* encodeURIComponent on the tokens of a collection id: a comma and a
\* percent sign are escaped, word tokens are unreserved
EncodeToken(c) ==
  CASE c = "," -> "%2C"
    [] c = "%2C" -> "%252C"
    [] OTHER -> c

encodeURIComponent(s) == [i \in 1..Len(s) |-> EncodeToken(s[i])]

\* the application/x-www-form-urlencoded serializer of URLSearchParams on one
\* token: reserved characters and the percent sign are escaped
FormEncodeToken(c) ==
  CASE c = "," -> "%2C"
    [] c = "%2C" -> "%252C"
    [] c = "/" -> "%2F"
    [] c = "?" -> "%3F"
    [] c = "=" -> "%3D"
    [] OTHER -> c

\* decodeURIComponent on one token: one level of percent-escapes is undone
DecodeToken(c) ==
  CASE c = "%2C" -> ","
    [] c = "%252C" -> "%2C"
    [] c = "%2F" -> "/"
    [] c = "%3F" -> "?"
    [] c = "%3D" -> "="
    [] OTHER -> c

decodeURIComponent(s) == [i \in 1..Len(s) |-> DecodeToken(s[i])]

\* new URL(t, 'file:/').pathname: the part of t before the query; a leading
\* "//" introduces a host, which is not part of the path; a relative path is
\* resolved against the root
UrlPathname(t) ==
  LET q == IndexOf(t, "?")
      beforeQuery == IF q = 0 THEN t ELSE SubSeq(t, 1, q - 1)
      hasHost == Len(beforeQuery) >= 2 /\ beforeQuery[1] = "/" /\ beforeQuery[2] = "/"
      afterSlashes == SubSeq(beforeQuery, 3, Len(beforeQuery))
      hostEnd == IndexOf(afterSlashes, "/")
  IN IF hasHost
     THEN IF hostEnd = 0 THEN <<"/">>
          ELSE SubSeq(afterSlashes, hostEnd, Len(afterSlashes))
     ELSE IF Len(beforeQuery) >= 1 /\ beforeQuery[1] = "/" THEN beforeQuery
     ELSE <<"/">> \o beforeQuery

\* new URL(t, 'file:/').searchParams: the name/value pairs of the query, in
\* order; an empty pair is dropped, a pair without "=" has an empty value
UrlSearchParams(t) ==
  LET q == IndexOf(t, "?")
      query == IF q = 0 THEN <<>> ELSE SubSeq(t, q + 1, Len(t))
      pairs == SelectSeq(Split(query, "&"), LAMBDA p : p # <<>>)
      Pair(p) == LET e == IndexOf(p, "=")
                 IN IF e = 0 THEN [name |-> p, value |-> <<>>]
                    ELSE [name |-> SubSeq(p, 1, e - 1),
                          value |-> SubSeq(p, e + 1, Len(p))]
  IN [i \in 1..Len(pairs) |-> Pair(pairs[i])]

\* URLSearchParams.prototype.toString
SearchParamsToString(params) ==
  LET Encoded(x) == [i \in 1..Len(x) |-> FormEncodeToken(x[i])]
      One(p) == Encoded(p.name) \o <<"=">> \o Encoded(p.value)
  IN Join([i \in 1..Len(params) |-> One(params[i])], "&")

\* the segment test of line 132, with a bug: any token of the template counts
HasCollectionsSegmentAnywhere(t) == Includes(t, "collections")

\* url.pathname.split('/').includes('collections')
HasCollectionsSegment(t) == Includes(Split(UrlPathname(t), "/"), <<"collections">>)

\* the value returned, and whether the error was logged
appendCollectionsQueryParam(tileUrlTemplate, collections) ==
  IF Len(collections) = 0
  THEN [value |-> tileUrlTemplate, logged |-> FALSE]
  ELSE IF HasCollectionsSegment(tileUrlTemplate)
  THEN [value |-> tileUrlTemplate, logged |-> TRUE]
  ELSE LET encodedCollections ==
             Join([i \in 1..Len(collections) |-> encodeURIComponent(collections[i])], ",")
           params == UrlSearchParams(tileUrlTemplate)
                       \o <<[name |-> <<"collections">>, value |-> encodedCollections]>>
           baseUrl == Split(tileUrlTemplate, "?")[1]
           queryParams == decodeURIComponent(SearchParamsToString(params))
       IN [value |-> baseUrl \o <<"?">> \o queryParams, logged |-> FALSE]

CollectionsError == "The \"collections\" query parameter cannot be added to collection endpoints"

\* the tokens of the templates that are tried
TemplateTokens == {"/", "?", "=", "&", "collections", "tiles"}

\* the collection lists that are tried: none, one id, an id with a comma in it
\* followed by a plain one (the documented example), an empty id
CollectionLists ==
  {<<>>, <<<<"a">>>>, <<<<"a", ",", "b">>, <<"c">>>>, <<<<>>>>}

AppendInit ==
  /\ pc = "call"
  /\ input \in [tileUrlTemplate : SeqsUpTo(TemplateTokens, MaxTemplateLen),
                collections : CollectionLists]
  /\ output = Return(<<>>)
  /\ errorLog = <<>>
  /\ fetches = <<>>
  /\ info = NoInfo
  /\ tileCoord = None

AppendCall ==
  /\ pc = "call"
  /\ LET r == appendCollectionsQueryParam(input.tileUrlTemplate, input.collections)
     IN /\ output' = Return(r.value)
        /\ errorLog' = IF r.logged THEN Append(errorLog, CollectionsError) ELSE errorLog
  /\ pc' = "done"
  /\ UNCHANGED <<input, fetches, info, tileCoord>>

SpecAppend == AppendInit /\ [][AppendCall]_vars

(***************************************************************************)
(* C4.  appendCollectionsQueryParam(t, cs) returns t unchanged when cs is  *)
(* empty, and when cs is not empty and a '/'-separated segment of t's path *)
(* is 'collections' (then the error is logged and nothing is added); in    *)
(* every other case the result is not t: it is t up to its query, then the *)
(* query with a final collections=<ids> parameter, each id escaped once    *)
(* and the ids separated by plain commas, and nothing is logged.           *)
(***************************************************************************)
\* the path of t read off the template itself: the tokens before the first
\* "?", a host after a leading "//" excepted
PathHasCollections(t) ==
  LET q == IndexOf(t, "?")
      n == IF q = 0 THEN Len(t) ELSE q - 1
      hasHost == n >= 2 /\ t[1] = "/" /\ t[2] = "/"
  IN \E i \in 1..n :
       /\ t[i] = "collections"
       /\ i = 1 \/ t[i - 1] = "/"
       /\ i = n \/ t[i + 1] = "/"
       /\ ~(hasHost /\ i = 3)

\* the ids as they must appear in the result
ExpectedCollectionsValue(cs) ==
  CASE cs = <<<<"a">>>> -> <<"a">>
    [] cs = <<<<"a", ",", "b">>, <<"c">>>> -> <<"a", "%2C", "b", ",", "c">>
    [] OTHER -> <<>>

CarriesCollectionsParam(r, cs) ==
  LET q == IndexOf(r, "?")
      tail == <<"collections", "=">> \o ExpectedCollectionsValue(cs)
      from == Len(r) - Len(tail) + 1
  IN /\ q > 0
     /\ from > q
     /\ SubSeq(r, from, Len(r)) = tail
     /\ r[from - 1] \in {"?", "&"}

C4_AppendContract ==
  pc = "done" =>
    LET t == input.tileUrlTemplate
        cs == input.collections
        r == output.value
    IN IF cs = <<>>
       THEN r = t /\ errorLog = <<>>
       ELSE IF PathHasCollections(t)
       THEN r = t /\ errorLog = <<CollectionsError>>
       ELSE /\ r # t
            /\ SubSeq(r, 1, Len(Split(t, "?")[1])) = Split(t, "?")[1]
            /\ CarriesCollectionsParam(r, cs)
            /\ errorLog = <<>>

\* a collections segment in the path, with collections asked for
C4_Witness ==
  /\ pc = "done"
  /\ input.tileUrlTemplate = <<"tiles", "/", "collections", "/">>
  /\ input.collections = <<<<"a", ",", "b">>, <<"c">>>>
  /\ output.value = input.tileUrlTemplate
  /\ errorLog # <<>>

(***************************************************************************)
(* Links and media types.  A media type is the token string <<top, sub>>, *)
(* the top-level type carrying its slash.                                  *)
(***************************************************************************)
knownMapMediaTypes ==
  {<<"image/", "png">>, <<"image/", "jpeg">>, <<"image/", "gif">>, <<"image/", "webp">>}

knownVectorMediaTypes ==
  {<<"application/", "vnd.mapbox-vector-tile">>, <<"application/", "geo+json">>}

\* String.prototype.startsWith
StartsWith(s, prefix) ==
  Len(s) >= Len(prefix) /\ SubSeq(s, 1, Len(prefix)) = prefix

TilingSchemeRel == "http://www.opengis.net/def/rel/ogc/1.0/tiling-scheme"

ItemLinkError == "Could not find \"item\" link"

\* the result of a selector: the template, and whether the appender logged
Selected(template, collections) ==
  IF collections.def
  THEN LET r == appendCollectionsQueryParam(template, collections.v)
       IN [out |-> Return(r.value), logged |-> r.logged]
  ELSE [out |-> Return(template), logged |-> FALSE]

NotSelected == [out |-> Throw(ItemLinkError), logged |-> FALSE]

(***************************************************************************)
(* getMapTileUrlTemplate                                                   *)
(***************************************************************************)
\* the loop of lines 162-175 with a bug: a recognized type no longer replaces
\* a fallback that is already set
RECURSIVE MapScanKeepFirst(_, _, _, _)
MapScanKeepFirst(links, mediaType, i, fallbackUrlTemplate) ==
  IF i > Len(links)
  THEN [tileUrlTemplate |-> None, fallbackUrlTemplate |-> fallbackUrlTemplate]
  ELSE LET link == links[i]
       IN IF link.rel = "item"
          THEN IF Some(link.type) = mediaType
               THEN [tileUrlTemplate |-> Some(link.href),
                     fallbackUrlTemplate |-> fallbackUrlTemplate]
               ELSE IF ~Truthy(fallbackUrlTemplate)
                       /\ (link.type \in knownMapMediaTypes
                           \/ StartsWith(link.type, <<"image/">>))
               THEN MapScanKeepFirst(links, mediaType, i + 1, Some(link.href))
               ELSE MapScanKeepFirst(links, mediaType, i + 1, fallbackUrlTemplate)
          ELSE MapScanKeepFirst(links, mediaType, i + 1, fallbackUrlTemplate)

\* the loop of lines 162-175, from link i on: the exact match it breaks on (if
\* any) and the fallback remembered when it ends
RECURSIVE MapScan(_, _, _, _)
MapScan(links, mediaType, i, fallbackUrlTemplate) ==
  IF i > Len(links)
  THEN [tileUrlTemplate |-> None, fallbackUrlTemplate |-> fallbackUrlTemplate]
  ELSE LET link == links[i]
       IN IF link.rel = "item"
          THEN IF Some(link.type) = mediaType
               THEN [tileUrlTemplate |-> Some(link.href),
                     fallbackUrlTemplate |-> fallbackUrlTemplate]
               ELSE IF link.type \in knownMapMediaTypes
               THEN MapScan(links, mediaType, i + 1, Some(link.href))
               ELSE IF ~Truthy(fallbackUrlTemplate) /\ StartsWith(link.type, <<"image/">>)
               THEN MapScan(links, mediaType, i + 1, Some(link.href))
               ELSE MapScan(links, mediaType, i + 1, fallbackUrlTemplate)
          ELSE MapScan(links, mediaType, i + 1, fallbackUrlTemplate)

getMapTileUrlTemplate(links, mediaType, collections) ==
  LET scan == MapScan(links, mediaType, 1, None)
  IN IF Truthy(scan.tileUrlTemplate)
     THEN Selected(scan.tileUrlTemplate.v, collections)
     ELSE IF Truthy(scan.fallbackUrlTemplate)
     THEN Selected(scan.fallbackUrlTemplate.v, collections)
     ELSE NotSelected

\* the href of the link at position i: its own, or the empty string
Hrefs == <<<<"hrefA">>, <<"hrefB">>, <<"hrefC">>, <<"hrefD">>, <<"hrefE">>>>

MapLinkTypes ==
  {<<"image/", "png">>, <<"image/", "jpeg">>, <<"image/", "x-foo">>, <<"text/", "html">>}

\* the links tried at position i: "item" links of every type, with and without
\* an href, and one link of another relation
MapLinksAt(i) ==
  [rel : {"item"}, type : MapLinkTypes, href : {Hrefs[i], <<>>}]
    \cup [rel : {TilingSchemeRel}, type : {<<"image/", "png">>}, href : {Hrefs[i]}]

\* the link lists of up to MaxLinks links
MapLinkLists ==
  UNION {{l \in [1..k -> UNION {MapLinksAt(i) : i \in 1..k}] :
            \A i \in 1..k : l[i] \in MapLinksAt(i)} : k \in 0..MaxLinks}

SelectorCollections == {None, Some(<<<<"a">>>>)}

MapInit ==
  /\ pc = "call"
  /\ \E links \in MapLinkLists,
        mediaType \in {None, Some(<<"image/", "jpeg">>), Some(<<"image/", "x-foo">>)},
        collections \in SelectorCollections :
       input = [links |-> links, mediaType |-> mediaType, collections |-> collections]
  /\ output = Return(<<>>)
  /\ errorLog = <<>>
  /\ fetches = <<>>
  /\ info = NoInfo
  /\ tileCoord = None

MapCall ==
  /\ pc = "call"
  /\ LET r == getMapTileUrlTemplate(input.links, input.mediaType, input.collections)
     IN /\ output' = r.out
        /\ errorLog' = IF r.logged THEN Append(errorLog, CollectionsError) ELSE errorLog
  /\ pc' = "done"
  /\ UNCHANGED <<input, fetches, info, tileCoord>>

SpecMap == MapInit /\ [][MapCall]_vars

(***************************************************************************)
(* C2.  The priority chain of getMapTileUrlTemplate over the "item" links. *)
(***************************************************************************)
MinOf(S) == CHOOSE x \in S : \A y \in S : x <= y

MaxOf(S) == CHOOSE x \in S : \A y \in S : x >= y

ItemLinks(links) == {i \in 1..Len(links) : links[i].rel = "item"}

ItemHrefsNonEmpty(links) == \A i \in ItemLinks(links) : links[i].href # <<>>

\* the link the chain picks, the last or the first of the recognized links
MapChain(links, mediaType, lastKnown) ==
  LET exact == {i \in ItemLinks(links) : Some(links[i].type) = mediaType}
      known == {i \in ItemLinks(links) : links[i].type \in knownMapMediaTypes}
      image == {i \in ItemLinks(links) : links[i].type[1] = "image/"}
  IN IF exact # {} THEN MinOf(exact)
     ELSE IF known # {} THEN (IF lastKnown THEN MaxOf(known) ELSE MinOf(known))
     ELSE IF image # {} THEN MinOf(image)
     ELSE 0

\* the outcome the chain's pick stands for: the picked href, with the
\* collections parameter when collections are given, or the error
ChainOutcome(links, pick, collections) ==
  IF pick = 0 THEN Throw(ItemLinkError)
  ELSE Selected(links[pick].href, collections).out

\* C2 as stated: (1) the first exact match, else (2) the FIRST link of a
\* recognized raster type, else (3) the first image/ link, else (4) the error.
C2_FirstRecognizedChain ==
  pc = "done" /\ ItemHrefsNonEmpty(input.links) =>
    output = ChainOutcome(input.links,
                          MapChain(input.links, input.mediaType, FALSE),
                          input.collections)

\* C2 as amended: for links whose "item" hrefs are not empty, (1) the first
\* exact match, else (2) the LAST link of a recognized raster type, else (3) the
\* first image/ link, else (4) the error.
C2_LastRecognizedChain ==
  pc = "done" /\ ItemHrefsNonEmpty(input.links) =>
    output = ChainOutcome(input.links,
                          MapChain(input.links, input.mediaType, TRUE),
                          input.collections)

\* two recognized links and no exact match: the later one is returned
C2_Witness ==
  /\ pc = "done"
  /\ input.mediaType = None
  /\ input.collections = None
  /\ Len(input.links) = 3
  /\ input.links[1] = [rel |-> "item", type |-> <<"image/", "x-foo">>, href |-> Hrefs[1]]
  /\ input.links[2] = [rel |-> "item", type |-> <<"image/", "png">>, href |-> Hrefs[2]]
  /\ input.links[3] = [rel |-> "item", type |-> <<"image/", "jpeg">>, href |-> Hrefs[3]]
  /\ output = Return(Hrefs[3])

(***************************************************************************)
(* getVectorTileUrlTemplate                                                *)
(***************************************************************************)
\* hrefLookup[type] = href
PutHref(hrefLookup, link) ==
  [t \in DOMAIN hrefLookup \cup {link.type} |->
     IF t = link.type THEN link.href ELSE hrefLookup[t]]

\* hrefLookup[type], undefined for a type never recorded
GetHref(hrefLookup, type) ==
  IF type \in DOMAIN hrefLookup THEN Some(hrefLookup[type]) ELSE None

\* the loop of lines 214-226, from link i on
RECURSIVE VectorScan(_, _, _, _, _)
VectorScan(links, mediaType, i, fallbackUrlTemplate, hrefLookup) ==
  IF i > Len(links)
  THEN [tileUrlTemplate |-> None, fallbackUrlTemplate |-> fallbackUrlTemplate,
        hrefLookup |-> hrefLookup]
  ELSE LET link == links[i]
           lookup == PutHref(hrefLookup, link)
       IN IF link.rel = "item"
          THEN IF Some(link.type) = mediaType
               THEN [tileUrlTemplate |-> Some(link.href),
                     fallbackUrlTemplate |-> fallbackUrlTemplate,
                     hrefLookup |-> lookup]
               ELSE IF link.type \in knownVectorMediaTypes
               THEN VectorScan(links, mediaType, i + 1, Some(link.href), lookup)
               ELSE VectorScan(links, mediaType, i + 1, fallbackUrlTemplate, lookup)
          ELSE VectorScan(links, mediaType, i + 1, fallbackUrlTemplate, lookup)

\* the loop of lines 229-235, from entry i on
RECURSIVE SupportedScan(_, _, _)
SupportedScan(supportedMediaTypes, hrefLookup, i) ==
  IF i > Len(supportedMediaTypes) THEN None
  ELSE IF Truthy(GetHref(hrefLookup, supportedMediaTypes[i]))
  THEN GetHref(hrefLookup, supportedMediaTypes[i])
  ELSE SupportedScan(supportedMediaTypes, hrefLookup, i + 1)

\* lines 228-244 with a bug: the recognized fallback is tried before the
\* supported media types
VectorResolveFallbackFirst(scan, supportedMediaTypes) ==
  IF Truthy(scan.tileUrlTemplate) THEN scan.tileUrlTemplate
  ELSE IF Truthy(scan.fallbackUrlTemplate) THEN scan.fallbackUrlTemplate
  ELSE IF supportedMediaTypes.def
  THEN SupportedScan(supportedMediaTypes.v, scan.hrefLookup, 1)
  ELSE None

\* lines 228-244: the template after the supported media types and the
\* fallback were tried, undefined when the function throws
VectorResolve(scan, supportedMediaTypes) ==
  LET tileUrlTemplate ==
        IF ~Truthy(scan.tileUrlTemplate) /\ supportedMediaTypes.def
        THEN SupportedScan(supportedMediaTypes.v, scan.hrefLookup, 1)
        ELSE scan.tileUrlTemplate
  IN IF Truthy(tileUrlTemplate) THEN tileUrlTemplate
     ELSE IF Truthy(scan.fallbackUrlTemplate) THEN scan.fallbackUrlTemplate
     ELSE None

getVectorTileUrlTemplate(links, mediaType, supportedMediaTypes, collections) ==
  LET scan == VectorScan(links, mediaType, 1, None, <<>>)
      tileUrlTemplate == VectorResolve(scan, supportedMediaTypes)
  IN IF Truthy(tileUrlTemplate)
     THEN Selected(tileUrlTemplate.v, collections)
     ELSE NotSelected

MVT == <<"application/", "vnd.mapbox-vector-tile">>

GeoJSON == <<"application/", "geo+json">>

PlainJSON == <<"application/", "json">>

VectorLinkTypes == {MVT, GeoJSON, PlainJSON}

VectorLinksAt(i) ==
  [rel : {"item"}, type : VectorLinkTypes, href : {Hrefs[i], <<>>}]
    \cup [rel : {TilingSchemeRel}, type : VectorLinkTypes, href : {Hrefs[i]}]

VectorLinkLists ==
  UNION {{l \in [1..k -> UNION {VectorLinksAt(i) : i \in 1..k}] :
            \A i \in 1..k : l[i] \in VectorLinksAt(i)} : k \in 0..MaxLinks}

VectorInit ==
  /\ pc = "call"
  /\ \E links \in VectorLinkLists,
        mediaType \in {None, Some(MVT)},
        supportedMediaTypes \in {None, Some(<<GeoJSON, MVT>>), Some(<<PlainJSON>>),
                                 Some(<<PlainJSON, GeoJSON>>)},
        collections \in SelectorCollections :
       input = [links |-> links, mediaType |-> mediaType,
                supportedMediaTypes |-> supportedMediaTypes,
                collections |-> collections]
  /\ output = Return(<<>>)
  /\ errorLog = <<>>
  /\ fetches = <<>>
  /\ info = NoInfo
  /\ tileCoord = None

VectorCall ==
  /\ pc = "call"
  /\ LET r == getVectorTileUrlTemplate(input.links, input.mediaType,
                                       input.supportedMediaTypes, input.collections)
     IN /\ output' = r.out
        /\ errorLog' = IF r.logged THEN Append(errorLog, CollectionsError) ELSE errorLog
  /\ pc' = "done"
  /\ UNCHANGED <<input, fetches, info, tileCoord>>

SpecVector == VectorInit /\ [][VectorCall]_vars

(***************************************************************************)
(* C3.  The precedence of getVectorTileUrlTemplate.                        *)
(***************************************************************************)
\* the supported media types some link (of any relation) carries
SupportedPresent(links, supportedMediaTypes) ==
  IF supportedMediaTypes.def
  THEN {k \in 1..Len(supportedMediaTypes.v) :
          \E i \in 1..Len(links) : links[i].type = supportedMediaTypes.v[k]}
  ELSE {}

\* the last link of the first supported media type present
SupportedPick(links, supportedMediaTypes) ==
  LET k == MinOf(SupportedPresent(links, supportedMediaTypes))
  IN MaxOf({i \in 1..Len(links) : links[i].type = supportedMediaTypes.v[k]})

ExactVector(links, mediaType) ==
  {i \in ItemLinks(links) : Some(links[i].type) = mediaType}

KnownVector(links) ==
  {i \in ItemLinks(links) : links[i].type \in knownVectorMediaTypes}

getProjection(code) ==
  CASE code = "EPSG:3857" -> Some(<<"e", "n", "u">>)
    [] code = "EPSG:4326" -> Some(<<"n", "e", "u">>)
    [] OTHER -> None

\* lines 266-276: the projection, undefined when the CRS is unsupported
ResolveProjection(sourceInfo, tileMatrixSet) ==
  IF sourceInfo.projection.def THEN sourceInfo.projection
  ELSE IF tileMatrixSet.crs.kind = "string" THEN getProjection(tileMatrixSet.crs.code)
  ELSE IF tileMatrixSet.crs.kind = "uri" THEN getProjection(tileMatrixSet.crs.code)
  ELSE None

\* the lower-case form of a letter, as the i flag of a regular expression
\* compares it
LowerCase(c) ==
  CASE c = "E" -> "e" [] c = "X" -> "x" [] c = "L" -> "l" [] c = "O" -> "o"
    [] c = "N" -> "n" [] c = "Y" -> "y" [] c = "A" -> "a" [] c = "T" -> "t"
    [] OTHER -> c

\* whether the alternative alt (lower-case letters) matches s at position p
MatchesAt(s, p, alt) ==
  /\ p + Len(alt) - 1 <= Len(s)
  /\ \A k \in 1..Len(alt) : LowerCase(s[p + k - 1]) = alt[k]

\* the first alternative, in their order, that matches s at position p, or 0
RECURSIVE FirstAlternative(_, _, _, _)
FirstAlternative(s, p, alts, a) ==
  IF a > Len(alts) THEN 0
  ELSE IF MatchesAt(s, p, alts[a]) THEN a
  ELSE FirstAlternative(s, p, alts, a + 1)

\* String.prototype.replace(/alt1|alt2|.../i, replacement): the leftmost match
\* only is replaced
RECURSIVE ReplaceFirstFrom(_, _, _, _)
ReplaceFirstFrom(s, p, alts, replacement) ==
  IF p > Len(s) THEN s
  ELSE LET a == FirstAlternative(s, p, alts, 1)
       IN IF a = 0 THEN ReplaceFirstFrom(s, p + 1, alts, replacement)
          ELSE SubSeq(s, 1, p - 1) \o replacement
                 \o SubSeq(s, p + Len(alts[a]), Len(s))

EastingPattern == <<<<"e">>, <<"x">>, <<"l", "o", "n">>>>

NorthingPattern == <<<<"n">>, <<"y">>, <<"l", "a", "t">>>>

\* s.replace(/E|X|Lon/i, 'e').replace(/N|Y|Lat/i, 'n')
NormalizeAxis(s) ==
  ReplaceFirstFrom(ReplaceFirstFrom(s, 1, EastingPattern, <<"e">>), 1,
                   NorthingPattern, <<"n">>)

\* Array.prototype.join('')
RECURSIVE Concat(_)
Concat(parts) == IF Len(parts) = 0 THEN <<>> ELSE parts[1] \o Concat(Tail(parts))

\* lines 278-283 with a bug: the projection decides whenever there is one
AxisOrientationProjectionFirst(orderedAxes, projection) == projection.v

\* lines 278-283
AxisOrientation(orderedAxes, projection) ==
  IF orderedAxes.def
  THEN LET firstTwo == SubSeq(orderedAxes.v, 1, IF Len(orderedAxes.v) < 2
                                                 THEN Len(orderedAxes.v) ELSE 2)
       IN Concat([i \in 1..Len(firstTwo) |-> NormalizeAxis(firstTwo[i])])
  ELSE projection.v

\* line 284
Backwards(axisOrientation) == ~StartsWith(axisOrientation, <<"e", "n">>)

(***************************************************************************)
(* parseTileMatrixSet: lookups, levels, extent, grid                       *)
(***************************************************************************)
\* lookup[key] = value
Put(lookup, key, value) ==
  [k \in DOMAIN lookup \cup {key} |-> IF k = key THEN value ELSE lookup[k]]

\* lines 292-295: the matrices by id, a later matrix replacing an earlier one
RECURSIVE BuildMatrixLookup(_, _, _)
BuildMatrixLookup(matrices, i, matrixLookup) ==
  IF i > Len(matrices) THEN matrixLookup
  ELSE BuildMatrixLookup(matrices, i + 1, Put(matrixLookup, matrices[i].id, matrices[i]))

\* lines 308-313: the limits by matrix id
RECURSIVE BuildLimitLookup(_, _, _)
BuildLimitLookup(limits, i, limitLookup) ==
  IF i > Len(limits) THEN limitLookup
  ELSE BuildLimitLookup(limits, i + 1, Put(limitLookup, limits[i].tileMatrix, limits[i]))

\* lines 307-319 with a bug: the matrix order is used although limits are given
ResolveMatrixIdsFromMatrices(matrices, tileMatrixSetLimits) ==
  [i \in 1..Len(matrices) |-> matrices[i].id]

\* lines 307-319: the ordered matrix ids
ResolveMatrixIds(matrices, tileMatrixSetLimits) ==
  IF tileMatrixSetLimits.def
  THEN [i \in 1..Len(tileMatrixSetLimits.v) |-> tileMatrixSetLimits.v[i].tileMatrix]
  ELSE [i \in 1..Len(matrices) |-> matrices[i].id]

\* Infinity, a number beyond every coordinate of the model
Infinity == 1000000

FullPlane == <<-Infinity, -Infinity, Infinity, Infinity>>

EmptyExtent == <<Infinity, Infinity, -Infinity, -Infinity>>

Greater(a, b) == IF a > b THEN a ELSE b

Lesser(a, b) == IF a < b THEN a ELSE b

\* getIntersection of ol/extent.js: the common part of two extents, the empty
\* extent when they do not meet
intersectExtents(a, b) ==
  IF a[1] <= b[3] /\ a[3] >= b[1] /\ a[2] <= b[4] /\ a[4] >= b[2]
  THEN <<Greater(a[1], b[1]), Greater(a[2], b[2]), Lesser(a[3], b[3]), Lesser(a[4], b[4])>>
  ELSE EmptyExtent

\* lines 331-336: the origin of a level
LevelOrigin(matrix, backwards) ==
  IF backwards
  THEN <<matrix.pointOfOrigin[2], matrix.pointOfOrigin[1]>>
  ELSE matrix.pointOfOrigin

\* lines 342-357 with a bug: the rows of a top-left matrix are counted upwards
LimitBoxAlwaysUpwards(matrix, limit, origin) ==
  LET tileMapWidth == matrix.cellSize * matrix.tileWidth
      tileMapHeight == matrix.cellSize * matrix.tileHeight
  IN <<origin[1] + limit.minTileCol * tileMapWidth,
       origin[2] + limit.minTileRow * tileMapHeight,
       origin[1] + (limit.maxTileCol + 1) * tileMapWidth,
       origin[2] + (limit.maxTileRow + 1) * tileMapHeight>>

\* lines 342-357: the box [minX, minY, maxX, maxY] of a level's limit
LimitBox(matrix, limit, origin) ==
  LET tileMapWidth == matrix.cellSize * matrix.tileWidth
      minX == origin[1] + limit.minTileCol * tileMapWidth
      maxX == origin[1] + (limit.maxTileCol + 1) * tileMapWidth
      tileMapHeight == matrix.cellSize * matrix.tileHeight
      upsideDown == matrix.cornerOfOrigin = "bottomLeft"
      minY == IF upsideDown
              THEN origin[2] + limit.minTileRow * tileMapHeight
              ELSE origin[2] - (limit.maxTileRow + 1) * tileMapHeight
      maxY == IF upsideDown
              THEN origin[2] + (limit.maxTileRow + 1) * tileMapHeight
              ELSE origin[2] - limit.minTileRow * tileMapHeight
  IN <<minX, minY, maxX, maxY>>

\* lines 328-361, from level i on: the per-level arrays and the extent, or
\* the TypeError of line 331 when the id has no matrix
RECURSIVE LevelLoop(_, _, _, _, _, _)
LevelLoop(matrixIds, matrixLookup, limitLookup, backwards, i, acc) ==
  IF i > Len(matrixIds) THEN acc
  ELSE LET id == matrixIds[i]
       IN IF id \notin DOMAIN matrixLookup
          THEN [acc EXCEPT !.typeError = TRUE]
          ELSE LET matrix == matrixLookup[id]
                   origin == LevelOrigin(matrix, backwards)
                   extent == IF id \in DOMAIN limitLookup
                             THEN intersectExtents(acc.extent,
                                                   LimitBox(matrix, limitLookup[id], origin))
                             ELSE acc.extent
               IN LevelLoop(matrixIds, matrixLookup, limitLookup, backwards, i + 1,
                            [typeError |-> FALSE,
                             origins |-> Append(acc.origins, origin),
                             resolutions |-> Append(acc.resolutions, matrix.cellSize),
                             sizes |-> Append(acc.sizes,
                                              <<matrix.matrixWidth, matrix.matrixHeight>>),
                             tileSizes |-> Append(acc.tileSizes,
                                                  <<matrix.tileWidth, matrix.tileHeight>>),
                             extent |-> extent])

UnsupportedCrsError == "Unsupported CRS"

TypeError == "TypeError"

\* the TileSetInfo returned, or the error thrown
parseTileMatrixSet(sourceInfo, tileMatrixSet, tileUrlTemplate, tileMatrixSetLimits) ==
  LET projection == ResolveProjection(sourceInfo, tileMatrixSet)
  IN IF ~projection.def THEN [state |-> "threw", error |-> UnsupportedCrsError]
     ELSE
     LET axisOrientation == AxisOrientation(tileMatrixSet.orderedAxes, projection)
         backwards == Backwards(axisOrientation)
         matrices == tileMatrixSet.tileMatrices
         matrixLookup == BuildMatrixLookup(matrices, 1, <<>>)
         limitLookup == IF tileMatrixSetLimits.def
                        THEN BuildLimitLookup(tileMatrixSetLimits.v, 1, <<>>)
                        ELSE <<>>
         matrixIds == ResolveMatrixIds(matrices, tileMatrixSetLimits)
         levels == LevelLoop(matrixIds, matrixLookup, limitLookup, backwards, 1,
                             [typeError |-> FALSE, origins |-> <<>>, resolutions |-> <<>>,
                              sizes |-> <<>>, tileSizes |-> <<>>, extent |-> FullPlane])
     IN IF levels.typeError THEN [state |-> "threw", error |-> TypeError]
        ELSE [state |-> "built",
              grid |-> [origins |-> levels.origins,
                        resolutions |-> levels.resolutions,
                        sizes |-> levels.sizes,
                        tileSizes |-> levels.tileSizes,
                        extent |-> IF tileMatrixSetLimits.def
                                   THEN Some(levels.extent) ELSE None],
              projection |-> projection,
              urlTemplate |-> tileUrlTemplate,
              matrixIds |-> matrixIds,
              matrixLookup |-> matrixLookup,
              limitLookup |-> limitLookup,
              hasLimits |-> tileMatrixSetLimits.def,
              context |-> sourceInfo.context,
              base |-> sourceInfo.url]

(***************************************************************************)
(* tileUrlFunction                                                         *)
(***************************************************************************)
Digits == <<"0", "1", "2", "3", "4", "5", "6", "7", "8", "9">>

RECURSIVE NatToString(_)
NatToString(n) ==
  IF n < 10 THEN <<Digits[n + 1]>>
  ELSE NatToString(n \div 10) \o <<Digits[(n % 10) + 1]>>

\* the decimal digits of an integer, as String(n) writes them
NumberToString(n) == IF n < 0 THEN <<"-">> \o NatToString(-n) ELSE NatToString(n)

\* the name p of a token that /\{(\w+?)\}/ matches, "" for any other token
PlaceholderKey(token) ==
  CASE token = "{tileMatrix}" -> "tileMatrix"
    [] token = "{tileCol}" -> "tileCol"
    [] token = "{tileRow}" -> "tileRow"
    [] token = "{z}" -> "z"
    [] token = "{x}" -> "x"
    [] token = "{y}" -> "y"
    [] token = "{style}" -> "style"
    [] token = "{time}" -> "time"
    [] OTHER -> ""

\* Object.assign(target, source): the keys of source replace those of target
Assign(target, source) ==
  [k \in DOMAIN target \cup DOMAIN source |->
     IF k \in DOMAIN source THEN source[k] ELSE target[k]]

\* tileUrlTemplate.replace(/\{(\w+?)\}/g, (m, p) => localContext[p]); a key
\* that localContext lacks is written "undefined"
ReplacePlaceholders(tileUrlTemplate, localContext) ==
  LET One(token) ==
        IF PlaceholderKey(token) = "" THEN <<token>>
        ELSE IF PlaceholderKey(token) \in DOMAIN localContext
        THEN localContext[PlaceholderKey(token)]
        ELSE <<"undefined">>
  IN Concat([i \in 1..Len(tileUrlTemplate) |-> One(tileUrlTemplate[i])])

\* resolveUrl of ol/net.js: the URL relative to the base
resolveUrl(base, url) == <<base>> \o url

\* line 387 with a bug: the row is never counted from the bottom
TileRowUnflipped(matrix, row) == row

\* line 387
TileRow(matrix, row) ==
  IF matrix.cornerOfOrigin = "bottomLeft" THEN -row - 1 ELSE row

\* lines 392-397
OutsideLimit(limit, tileCol, tileRow) ==
  \/ tileCol < limit.minTileCol
  \/ tileCol > limit.maxTileCol
  \/ tileRow < limit.minTileRow
  \/ tileRow > limit.maxTileRow

\* the URL function of a TileSetInfo applied to an optional tile coordinate:
\* a URL, undefined, or a thrown TypeError
tileUrlFunction(tileSetInfo, coord) ==
  IF ~coord.def THEN Return(None)
  ELSE LET level == coord.v[1] + 1
       IN IF level \notin 1..Len(tileSetInfo.matrixIds)
             \/ tileSetInfo.matrixIds[level] \notin DOMAIN tileSetInfo.matrixLookup
          THEN Throw(TypeError)
          ELSE LET id == tileSetInfo.matrixIds[level]
                   matrix == tileSetInfo.matrixLookup[id]
                   tileCol == coord.v[2]
                   tileRow == TileRow(matrix, coord.v[3])
               IN IF tileSetInfo.hasLimits /\ matrix.id \notin DOMAIN tileSetInfo.limitLookup
                  THEN Throw(TypeError)
                  ELSE IF tileSetInfo.hasLimits
                          /\ OutsideLimit(tileSetInfo.limitLookup[matrix.id], tileCol, tileRow)
                  THEN Return(None)
                  ELSE LET computed ==
                             [k \in {"tileMatrix", "z"} |-> <<id>>]
                               @@ [k \in {"tileCol", "x"} |-> NumberToString(tileCol)]
                               @@ [k \in {"tileRow", "y"} |-> NumberToString(tileRow)]
                           localContext ==
                             IF tileSetInfo.context.def
                             THEN Assign(computed, tileSetInfo.context.v)
                             ELSE computed
                           url == ReplacePlaceholders(tileSetInfo.urlTemplate, localContext)
                       IN Return(Some(resolveUrl(tileSetInfo.base, url)))

(***************************************************************************)
(* The parses and the tile requests that are tried.                        *)
(***************************************************************************)
MatrixA ==
  [id |-> "a", cellSize |-> 2, pointOfOrigin |-> <<0, 8>>, cornerOfOrigin |-> "absent",
   matrixWidth |-> 2, matrixHeight |-> 2, tileWidth |-> 1, tileHeight |-> 2]

MatrixB ==
  [id |-> "b", cellSize |-> 1, pointOfOrigin |-> <<0, 8>>, cornerOfOrigin |-> "bottomLeft",
   matrixWidth |-> 4, matrixHeight |-> 4, tileWidth |-> 2, tileHeight |-> 1]

\* a second matrix with the id of the first
MatrixA2 ==
  [id |-> "a", cellSize |-> 1, pointOfOrigin |-> <<-2, 6>>, cornerOfOrigin |-> "topLeft",
   matrixWidth |-> 4, matrixHeight |-> 2, tileWidth |-> 1, tileHeight |-> 1]

Matrices == {MatrixA, MatrixB, MatrixA2}

Limit(id, minCol, maxCol, minRow, maxRow) ==
  [tileMatrix |-> id, minTileCol |-> minCol, maxTileCol |-> maxCol,
   minTileRow |-> minRow, maxTileRow |-> maxRow]

\* limits of both matrices, a limit whose column range is empty, and a limit of
\* a matrix the matrix set does not have
Limits ==
  {Limit("a", 0, 1, 0, 0), Limit("b", 1, 1, 0, 1), Limit("a", 2, 0, 0, 1),
   Limit("zz", 0, 0, 0, 0)}

TileUrlTemplate ==
  <<"{tileMatrix}", "/", "{tileRow}", "/", "{tileCol}", "?", "{z}", "{x}", "{y}",
    "{style}", "{time}">>

Contexts == {None, Some([k \in {"style", "z"} |-> <<"mine">>])}

TileCoords ==
  {None} \cup {Some(<<z, x, y>>) : z \in -1..MaxLevels, x \in 0..2, y \in -2..1}

ParseInputs(orderedAxes, projections, crss, contexts, limits) ==
  [sourceInfo : [url : {"base/"}, projection : projections, context : contexts],
   tileMatrixSet : [crs : crss, orderedAxes : orderedAxes,
                    tileMatrices : SeqsUpTo(Matrices, MaxLevels)],
   tileUrlTemplate : {TileUrlTemplate},
   tileMatrixSetLimits : limits]

ParseStart(inputs) ==
  /\ pc = "call"
  /\ input \in inputs
  /\ output = Return(None)
  /\ errorLog = <<>>
  /\ fetches = <<>>
  /\ info = NoInfo
  /\ tileCoord = None

LatLon == <<<<"L", "a", "t">>, <<"L", "o", "n">>>>

WebMercator == [kind |-> "string", code |-> "EPSG:3857"]

ParseInit ==
  ParseStart(ParseInputs({None, Some(LatLon)}, {Some(<<"e", "n", "u">>)}, {WebMercator},
                         Contexts,
                         {None} \cup {Some(l) : l \in SeqsUpTo(Limits, MaxLevels)}))

\* parseTileMatrixSet is called with the arguments
ParseCall ==
  /\ pc = "call"
  /\ info' = parseTileMatrixSet(input.sourceInfo, input.tileMatrixSet,
                                input.tileUrlTemplate, input.tileMatrixSetLimits)
  /\ pc' = IF info'.state = "built" THEN "parsed" ELSE "failed"
  /\ UNCHANGED <<input, output, errorLog, fetches, tileCoord>>

\* the URL function of the TileSetInfo is called with a tile coordinate; it
\* reads the TileSetInfo alone, which no call changes, so one call is followed
UrlCall ==
  /\ pc = "parsed"
  /\ \E coord \in TileCoords :
       /\ tileCoord' = coord
       /\ output' = tileUrlFunction(info, coord)
  /\ pc' = "requested"
  /\ UNCHANGED <<input, errorLog, fetches, info>>

ParseNext == ParseCall \/ UrlCall

SpecParse == ParseInit /\ [][ParseNext]_vars

\* the axis declarations that are tried: the names of the standard in both
\* orders and cases, a third axis, a single axis, none, and spelled-out names
AxisDeclarations ==
  {LatLon,
   <<<<"L", "o", "n">>, <<"L", "a", "t">>>>,
   <<<<"l", "o", "n">>, <<"l", "a", "t">>>>,
   <<<<"E">>, <<"N">>>>,
   <<<<"N">>, <<"E">>>>,
   <<<<"X">>, <<"Y">>>>,
   <<<<"y">>, <<"x">>>>,
   <<<<"E">>, <<"N">>, <<"h">>>>,
   <<<<"E">>>>,
   <<>>,
   <<<<"E", "a", "s", "t">>, <<"N", "o", "r", "t", "h">>>>}

AxesInit ==
  ParseStart(ParseInputs({None} \cup {Some(a) : a \in AxisDeclarations},
                         {None, Some(<<"e", "n", "u">>), Some(<<"n", "e", "u">>)},
                         {WebMercator, [kind |-> "uri", code |-> "EPSG:4326"],
                          [kind |-> "string", code |-> "EPSG:0"], [kind |-> "wkt", code |-> ""]},
                         {None}, {None}))

SpecAxes == AxesInit /\ [][ParseNext]_vars

(***************************************************************************)
(* What the claims about the parser read off the arguments.                *)
(***************************************************************************)
InMatrices == input.tileMatrixSet.tileMatrices

InLimits == input.tileMatrixSetLimits

\* the matrix that holds an id: the last one declared with it
MatrixOf(id) == InMatrices[MaxOf({j \in 1..Len(InMatrices) : InMatrices[j].id = id})]

\* the limit of an id: the last one declared for it
LimitOf(id) == InLimits.v[MaxOf({j \in 1..Len(InLimits.v) : InLimits.v[j].tileMatrix = id})]

Built == pc \in {"parsed", "requested"}

\* a tile was requested at a level the grid has
RequestedAtLevel ==
  /\ pc = "requested"
  /\ tileCoord.def
  /\ tileCoord.v[1] + 1 \in 1..Len(info.grid.resolutions)

Decimal(n) ==
  CASE n = -2 -> <<"-", "2">> [] n = -1 -> <<"-", "1">> [] n = 0 -> <<"0">>
    [] n = 1 -> <<"1">> [] n = 2 -> <<"2">>

\* the value of a placeholder: the caller's context value when the context
\* defines the key and is honoured, the computed value otherwise
Substituted(key, computed, honoured) ==
  IF honoured /\ input.sourceInfo.context.def /\ key \in DOMAIN input.sourceInfo.context.v
  THEN input.sourceInfo.context.v[key]
  ELSE computed

\* TileUrlTemplate with id, col and tileRow in place
ExpectedUrl(id, col, tileRow, honoured) ==
  <<"base/">> \o Substituted("tileMatrix", <<id>>, honoured)
    \o <<"/">> \o Substituted("tileRow", Decimal(tileRow), honoured)
    \o <<"/">> \o Substituted("tileCol", Decimal(col), honoured)
    \o <<"?">> \o Substituted("z", <<id>>, honoured)
    \o Substituted("x", Decimal(col), honoured)
    \o Substituted("y", Decimal(tileRow), honoured)
    \o Substituted("style", <<"undefined">>, TRUE)
    \o Substituted("time", <<"undefined">>, TRUE)

\* the URL function's answer at a level with limits, as C1 describes it
LimitedAnswer(honoured) ==
  LET id == InLimits.v[tileCoord.v[1] + 1].tileMatrix
      col == tileCoord.v[2]
      row == tileCoord.v[3]
      tileRow == IF MatrixOf(id).cornerOfOrigin = "bottomLeft" THEN -row - 1 ELSE row
      inside == /\ LimitOf(id).minTileCol <= col /\ col <= LimitOf(id).maxTileCol
                /\ LimitOf(id).minTileRow <= tileRow /\ tileRow <= LimitOf(id).maxTileRow
  IN /\ ~output.threw
     /\ output.value.def <=> inside
     /\ inside => output.value.v = ExpectedUrl(id, col, tileRow, honoured)

(***************************************************************************)
(* C1.  For a grid built with limits, every level i and every (col, row):  *)
(* the URL function returns a URL exactly when (col, tileRow) lies in the  *)
(* limit box of level i's matrix id, tileRow = -row - 1 for a bottomLeft   *)
(* matrix and row otherwise, and undefined outside it.                     *)
(***************************************************************************)
\* C1 as stated: the URL carries the matrix id, col and tileRow for
\* {tileMatrix}/{z}, {tileCol}/{x}, {tileRow}/{y}, whatever the context.
C1_UrlIffInsideLimit_Computed ==
  RequestedAtLevel /\ InLimits.def => LimitedAnswer(FALSE)

\* C1 as amended: the URL carries the matrix id, col and tileRow for those of
\* {tileMatrix}/{z}, {tileCol}/{x}, {tileRow}/{y} that the caller's context
\* does not define, and the context's value for those it defines.
C1_UrlIffInsideLimit ==
  RequestedAtLevel /\ InLimits.def => LimitedAnswer(TRUE)

\* a bottomLeft level: row -1 is tile row 0, inside the limit of "b"
C1_Witness ==
  /\ pc = "requested"
  /\ InLimits = Some(<<Limit("a", 0, 1, 0, 0), Limit("b", 1, 1, 0, 1)>>)
  /\ tileCoord = Some(<<1, 1, -1>>)
  /\ input.sourceInfo.context = None
  /\ output = Return(Some(<<"base/", "b", "/", "0", "/", "1", "?", "b", "1", "0",
                            "undefined", "undefined">>))

(***************************************************************************)
(* C6.  An out-of-range tile address is never an error: for every tile     *)
(* coordinate, a level index outside the grid's levels included, the URL   *)
(* function returns undefined instead of throwing, and an undefined        *)
(* coordinate yields undefined.                                            *)
(***************************************************************************)
C6_OutOfRangeIsUndefined ==
  pc = "requested" =>
    /\ ~output.threw
    /\ ~tileCoord.def => ~output.value.def
    /\ tileCoord.def /\ tileCoord.v[1] + 1 \notin 1..Len(info.grid.resolutions)
         => ~output.value.def

(***************************************************************************)
(* C7.  When a limit names a matrix id that the matrix set does not have,  *)
(* parseTileMatrixSet does not throw.                                      *)
(***************************************************************************)
C7_MissingMatrixDoesNotThrow ==
  /\ pc # "call"
  /\ InLimits.def
  /\ \E i \in 1..Len(InLimits.v) :
       \A j \in 1..Len(InMatrices) : InMatrices[j].id # InLimits.v[i].tileMatrix
  => info.state = "built"

(***************************************************************************)
(* C8.  The matrix ids are the limits' ids in the limits' order when       *)
(* limits are given, the matrices' ids in their order otherwise; level i   *)
(* of the grid has the resolution, size, tile size and origin of the       *)
(* matrix of the i-th id, and the URL function at level i uses that id,    *)
(* that matrix and that id's limit.                                        *)
(***************************************************************************)
C8_LevelsFollowMatrixIds ==
  Built =>
    LET ids == IF InLimits.def
               THEN [i \in 1..Len(InLimits.v) |-> InLimits.v[i].tileMatrix]
               ELSE [i \in 1..Len(InMatrices) |-> InMatrices[i].id]
        grid == info.grid
    IN /\ info.matrixIds = ids
       /\ Len(grid.origins) = Len(ids)
       /\ Len(grid.resolutions) = Len(ids)
       /\ Len(grid.sizes) = Len(ids)
       /\ Len(grid.tileSizes) = Len(ids)
       /\ \A i \in 1..Len(ids) :
            LET m == MatrixOf(ids[i])
            IN /\ grid.resolutions[i] = m.cellSize
               /\ grid.sizes[i] = <<m.matrixWidth, m.matrixHeight>>
               /\ grid.tileSizes[i] = <<m.tileWidth, m.tileHeight>>
               /\ grid.origins[i] \in {m.pointOfOrigin,
                                       <<m.pointOfOrigin[2], m.pointOfOrigin[1]>>}
       /\ RequestedAtLevel =>
            LET id == ids[tileCoord.v[1] + 1]
                m == MatrixOf(id)
                tileRow == IF m.cornerOfOrigin = "bottomLeft"
                           THEN -tileCoord.v[3] - 1 ELSE tileCoord.v[3]
            IN /\ ~output.threw
               /\ output.value.def =>
                    /\ output.value.v[2] = id
                    /\ output.value.v = ExpectedUrl(id, tileCoord.v[2], tileRow, TRUE)
               /\ ~output.value.def =>
                    /\ InLimits.def
                    /\ \/ tileCoord.v[2] \notin LimitOf(id).minTileCol..LimitOf(id).maxTileCol
                       \/ tileRow \notin LimitOf(id).minTileRow..LimitOf(id).maxTileRow

\* limits in the order b, a over matrices in the order a, b: level 0 is "b"
C8_Witness ==
  /\ pc = "requested"
  /\ InMatrices = <<MatrixA, MatrixB>>
  /\ InLimits = Some(<<Limit("b", 1, 1, 0, 1), Limit("a", 0, 1, 0, 0)>>)
  /\ info.matrixIds = <<"b", "a">>
  /\ info.grid.resolutions = <<1, 2>>
  /\ tileCoord = Some(<<0, 1, -2>>)
  /\ output.value.def
  /\ output.value.v[2] = "b"

(***************************************************************************)
(* C9.  The extent passed to the grid is undefined without limits;         *)
(* otherwise it is the intersection, over the levels, of the boxes          *)
(*   minX = origin.x + minTileCol*cellSize*tileWidth,                      *)
(*   maxX = origin.x + (maxTileCol+1)*cellSize*tileWidth,                  *)
(*   bottomLeft: minY = origin.y + minTileRow*cellSize*tileHeight,         *)
(*               maxY = origin.y + (maxTileRow+1)*cellSize*tileHeight,     *)
(*   topLeft or absent: minY = origin.y - (maxTileRow+1)*cellSize*tileHeight, *)
(*               maxY = origin.y - minTileRow*cellSize*tileHeight,         *)
(* origin being the level's origin in the grid; a box has minX <= maxX and *)
(* minY <= maxY when the limit has min <= max.  An empty intersection is   *)
(* an extent that contains no point.                                       *)
(***************************************************************************)
\* the box of level i as C9 writes it
ClaimedBox(i) ==
  LET id == InLimits.v[i].tileMatrix
      m == MatrixOf(id)
      l == LimitOf(id)
      o == info.grid.origins[i]
  IN IF m.cornerOfOrigin = "bottomLeft"
     THEN <<o[1] + l.minTileCol * m.cellSize * m.tileWidth,
            o[2] + l.minTileRow * m.cellSize * m.tileHeight,
            o[1] + (l.maxTileCol + 1) * m.cellSize * m.tileWidth,
            o[2] + (l.maxTileRow + 1) * m.cellSize * m.tileHeight>>
     ELSE <<o[1] + l.minTileCol * m.cellSize * m.tileWidth,
            o[2] - (l.maxTileRow + 1) * m.cellSize * m.tileHeight,
            o[1] + (l.maxTileCol + 1) * m.cellSize * m.tileWidth,
            o[2] - l.minTileRow * m.cellSize * m.tileHeight>>

HoldsNoPoint(e) == e[1] > e[3] \/ e[2] > e[4]

\* the greatest of the numbers f[i] and of -Infinity, the least and Infinity
Greatest(f) == MaxOf({f[i] : i \in DOMAIN f} \cup {-Infinity})

Least(f) == MinOf({f[i] : i \in DOMAIN f} \cup {Infinity})

C9_ExtentIsIntersection ==
  Built =>
    IF ~InLimits.def THEN info.grid.extent = None
    ELSE LET n == Len(InLimits.v)
             common == <<Greatest([i \in 1..n |-> ClaimedBox(i)[1]]),
                         Greatest([i \in 1..n |-> ClaimedBox(i)[2]]),
                         Least([i \in 1..n |-> ClaimedBox(i)[3]]),
                         Least([i \in 1..n |-> ClaimedBox(i)[4]])>>
         IN /\ info.grid.extent.def
            /\ IF HoldsNoPoint(common)
               THEN HoldsNoPoint(info.grid.extent.v)
               ELSE info.grid.extent.v = common
            /\ \A i \in 1..n :
                 LET l == LimitOf(InLimits.v[i].tileMatrix)
                 IN /\ l.minTileCol <= l.maxTileCol => ClaimedBox(i)[1] <= ClaimedBox(i)[3]
                    /\ l.minTileRow <= l.maxTileRow => ClaimedBox(i)[2] <= ClaimedBox(i)[4]

\* a topLeft level and a bottomLeft level that meet along the line y = 8
C9_Witness ==
  /\ Built
  /\ input.tileMatrixSet.orderedAxes = None
  /\ InMatrices = <<MatrixA, MatrixB>>
  /\ InLimits = Some(<<Limit("a", 0, 1, 0, 0), Limit("b", 1, 1, 0, 1)>>)
  /\ info.grid.extent = Some(<<2, 8, 4, 8>>)

(***************************************************************************)
(* C10.  The axis order is decided once per parse and applied to every     *)
(* level: with orderedAxes its first two entries decide (E/X/Lon is an     *)
(* easting, N/Y/Lat a northing, in any case) and the projection's axis     *)
(* orientation is ignored; without orderedAxes the projection's axis       *)
(* orientation decides; every level's origin is the pointOfOrigin pair     *)
(* swapped unless the order is easting then northing.                      *)
(***************************************************************************)
EastingNames == {<<"E">>, <<"e">>, <<"X">>, <<"x">>, <<"L", "o", "n">>, <<"l", "o", "n">>}

NorthingNames == {<<"N">>, <<"n">>, <<"Y">>, <<"y">>, <<"L", "a", "t">>, <<"l", "a", "t">>}

\* every level's origin is the declared pair, swapped or not
OriginsSwapped(swapped) ==
  \A i \in 1..Len(info.matrixIds) :
    LET o == MatrixOf(info.matrixIds[i]).pointOfOrigin
    IN info.grid.origins[i] = IF swapped THEN <<o[2], o[1]>> ELSE o

C10_AxisOrderDecidedOnce ==
  Built =>
    LET axes == input.tileMatrixSet.orderedAxes
        first == SubSeq(axes.v, 1, IF Len(axes.v) < 2 THEN Len(axes.v) ELSE 2)
    IN /\ OriginsSwapped(TRUE) \/ OriginsSwapped(FALSE)
       /\ ~axes.def =>
            OriginsSwapped(~(info.projection.v[1] = "e" /\ info.projection.v[2] = "n"))
       /\ axes.def /\ (\A k \in 1..Len(first) : first[k] \in EastingNames \cup NorthingNames) =>
            OriginsSwapped(~(/\ Len(first) = 2
                             /\ first[1] \in EastingNames
                             /\ first[2] \in NorthingNames))

\* orderedAxes = ['Lat', 'Lon'] over an easting-first projection: swapped
C10_Witness ==
  /\ Built
  /\ input.tileMatrixSet.orderedAxes = Some(LatLon)
  /\ input.sourceInfo.projection = Some(<<"e", "n", "u">>)
  /\ InMatrices = <<MatrixA, MatrixA2>>
  /\ info.grid.origins = <<<<6, -2>>, <<6, -2>>>>

(***************************************************************************)
(* parseTileSetMetadata and getTileSetInfo                                 *)
(***************************************************************************)
DataTypeError == "Expected tileset data type to be \"map\" or \"vector\""

TilingSchemeError ==
  "Expected http://www.opengis.net/def/rel/ogc/1.0/tiling-scheme link or tileMatrixSet"

FetchError == "getJSON failed"

\* Array.prototype.find by relation: the index of the first tiling-scheme
\* link, or 0
RECURSIVE FindTilingScheme(_, _)
FindTilingScheme(links, i) ==
  IF i > Len(links) THEN 0
  ELSE IF links[i].rel = TilingSchemeRel THEN i
  ELSE FindTilingScheme(links, i + 1)

\* lines 437-452: the URL template, or the error thrown
SelectTemplate(sourceInfo, tileSet) ==
  IF tileSet.dataType = "map"
  THEN getMapTileUrlTemplate(tileSet.links, sourceInfo.mediaType, sourceInfo.collections)
  ELSE IF tileSet.dataType = "vector"
  THEN getVectorTileUrlTemplate(tileSet.links, sourceInfo.mediaType,
                                sourceInfo.supportedMediaTypes, sourceInfo.collections)
  ELSE [out |-> Throw(DataTypeError), logged |-> FALSE]

Step(kind, error, tileSetInfo, url, template, logged) ==
  [kind |-> kind, error |-> error, info |-> tileSetInfo, url |-> url,
   tileUrlTemplate |-> template, logged |-> logged]

\* lines 454-474 with a bug: a tiling-scheme link is followed although the
\* tileset carries its tile matrix set
AfterSelectionLinkFirst(sourceInfo, tileSet, selected) ==
  LET k == FindTilingScheme(tileSet.links, 1)
  IN IF k # 0
     THEN Step("fetch", "", NoInfo, resolveUrl(sourceInfo.url, tileSet.links[k].href),
               selected.out.value, selected.logged)
     ELSE IF tileSet.tileMatrixSet.def
     THEN Step("info", "",
               parseTileMatrixSet(sourceInfo, tileSet.tileMatrixSet.v, selected.out.value,
                                  tileSet.tileMatrixSetLimits),
               <<>>, selected.out.value, selected.logged)
     ELSE Step("threw", TilingSchemeError, NoInfo, <<>>, <<>>, selected.logged)

\* lines 454-474: with the template selected, the inline tile matrix set is
\* parsed, or the tiling-scheme link is resolved for the second request, or
\* the error is thrown
AfterSelection(sourceInfo, tileSet, selected) ==
  IF tileSet.tileMatrixSet.def
  THEN Step("info", "",
            parseTileMatrixSet(sourceInfo, tileSet.tileMatrixSet.v, selected.out.value,
                               tileSet.tileMatrixSetLimits),
            <<>>, selected.out.value, selected.logged)
  ELSE LET k == FindTilingScheme(tileSet.links, 1)
       IN IF k = 0
          THEN Step("threw", TilingSchemeError, NoInfo, <<>>, <<>>, selected.logged)
          ELSE Step("fetch", "", NoInfo,
                    resolveUrl(sourceInfo.url, tileSet.links[k].href),
                    selected.out.value, selected.logged)

\* what parseTileSetMetadata does up to its return: it throws, returns a
\* TileSetInfo, or issues getJSON for the tile matrix set
parseTileSetMetadata(sourceInfo, tileSet) ==
  LET selected == SelectTemplate(sourceInfo, tileSet)
  IN IF selected.out.threw
     THEN Step("threw", selected.out.error, NoInfo, <<>>, <<>>, selected.logged)
     ELSE AfterSelection(sourceInfo, tileSet, selected)

\* the tile matrix set documents
TileMatrixSetAB ==
  [crs |-> WebMercator, orderedAxes |-> None, tileMatrices |-> <<MatrixA, MatrixB>>]

TileMatrixSetWkt ==
  [crs |-> [kind |-> "wkt", code |-> ""], orderedAxes |-> Some(LatLon),
   tileMatrices |-> <<MatrixB>>]

TileMatrixSets == {TileMatrixSetAB, TileMatrixSetWkt}

ItemLink(type, href) == [rel |-> "item", type |-> type, href |-> href]

SchemeLink(href) == [rel |-> TilingSchemeRel, type |-> PlainJSON, href |-> href]

\* the link lists of the tileset documents
TileSetLinks ==
  {<<>>,
   <<ItemLink(<<"image/", "png">>, Hrefs[1])>>,
   <<SchemeLink(Hrefs[1])>>,
   <<ItemLink(<<"image/", "png">>, Hrefs[1]), SchemeLink(Hrefs[2])>>,
   <<SchemeLink(Hrefs[1]), ItemLink(MVT, Hrefs[2]), SchemeLink(Hrefs[3])>>,
   <<ItemLink(<<"text/", "html">>, Hrefs[1]), SchemeLink(Hrefs[2])>>}

\* the tileset documents the server may answer with
TileSets ==
  [dataType : {"map", "vector", "coverage"},
   links : TileSetLinks,
   tileMatrixSet : {None} \cup {Some(t) : t \in TileMatrixSets},
   tileMatrixSetLimits : {None, Some(<<Limit("b", 1, 1, 0, 1)>>),
                          Some(<<Limit("zz", 0, 0, 0, 0)>>)}]

SourceInfos ==
  [url : {"base/"}, mediaType : {None}, supportedMediaTypes : {None, Some(<<PlainJSON>>)},
   projection : {None, Some(<<"e", "n", "u">>)}, context : {None},
   collections : {None, Some(<<<<"a">>>>)}]

\* a getJSON request for a document, just issued
Request(doc, url) == [doc |-> doc, url |-> url, state |-> "pending", response |-> None]

InfoInit ==
  /\ pc = "start"
  /\ input \in [sourceInfo : SourceInfos]
  /\ output = Return(None)
  /\ errorLog = <<>>
  /\ fetches = <<>>
  /\ info = NoInfo
  /\ tileCoord = None

\* getTileSetInfo(sourceInfo): getJSON(sourceInfo.url) is issued
GetTileSetInfo ==
  /\ pc = "start"
  /\ fetches' = <<Request("tileSet", <<input.sourceInfo.url>>)>>
  /\ pc' = "awaitTileSet"
  /\ UNCHANGED <<input, output, errorLog, info, tileCoord>>

\* the tileset document arrives
TileSetArrives ==
  /\ pc = "awaitTileSet"
  /\ \E tileSet \in TileSets :
       fetches' = [fetches EXCEPT ![1] = [@ EXCEPT !.state = "fulfilled",
                                                   !.response = Some(tileSet)]]
  /\ pc' = "tileSetFetched"
  /\ UNCHANGED <<input, output, errorLog, info, tileCoord>>

\* the pending request fails: the promise of getTileSetInfo is rejected
FetchFails ==
  /\ pc \in {"awaitTileSet", "awaitTileMatrixSet"}
  /\ fetches' = [fetches EXCEPT ![Len(fetches)] = [@ EXCEPT !.state = "rejected"]]
  /\ output' = Throw(FetchError)
  /\ pc' = "rejected"
  /\ UNCHANGED <<input, errorLog, info, tileCoord>>

\* the callback of line 490 runs parseTileSetMetadata on the document
ParseTileSetMetadata ==
  /\ pc = "tileSetFetched"
  /\ LET step == parseTileSetMetadata(input.sourceInfo, fetches[1].response.v)
     IN /\ errorLog' = IF step.logged THEN Append(errorLog, CollectionsError) ELSE errorLog
        /\ fetches' = IF step.kind = "fetch" THEN Append(fetches, Request("tileMatrixSet", step.url))
                      ELSE fetches
        /\ info' = IF step.kind = "info" THEN step.info ELSE info
        /\ output' = IF step.kind = "threw" THEN Throw(step.error)
                     ELSE IF step.kind = "info" /\ step.info.state = "threw"
                     THEN Throw(step.info.error)
                     ELSE output
        /\ pc' = IF step.kind = "fetch" THEN "awaitTileMatrixSet"
                 ELSE IF step.kind = "info" /\ step.info.state = "built" THEN "resolved"
                 ELSE "rejected"
  /\ UNCHANGED <<input, tileCoord>>

\* the tile matrix set document arrives
TileMatrixSetArrives ==
  /\ pc = "awaitTileMatrixSet"
  /\ \E tileMatrixSet \in TileMatrixSets :
       fetches' = [fetches EXCEPT ![2] = [@ EXCEPT !.state = "fulfilled",
                                                   !.response = Some(tileMatrixSet)]]
  /\ pc' = "tileMatrixSetFetched"
  /\ UNCHANGED <<input, output, errorLog, info, tileCoord>>

\* the callback of line 475 parses the fetched tile matrix set with the
\* template and the limits of the tileset
ParseFetchedTileMatrixSet ==
  /\ pc = "tileMatrixSetFetched"
  /\ LET tileSet == fetches[1].response.v
         selected == SelectTemplate(input.sourceInfo, tileSet)
     IN info' = parseTileMatrixSet(input.sourceInfo, fetches[2].response.v,
                                   selected.out.value, tileSet.tileMatrixSetLimits)
  /\ output' = IF info'.state = "threw" THEN Throw(info'.error) ELSE output
  /\ pc' = IF info'.state = "built" THEN "resolved" ELSE "rejected"
  /\ UNCHANGED <<input, errorLog, fetches, tileCoord>>

InfoNext ==
  \/ GetTileSetInfo
  \/ TileSetArrives
  \/ FetchFails
  \/ ParseTileSetMetadata
  \/ TileMatrixSetArrives
  \/ ParseFetchedTileMatrixSet

SpecInfo == InfoInit /\ [][InfoNext]_vars

(***************************************************************************)
(* C5.  In every run of getTileSetInfo the tile matrix set is requested    *)
(* only after the tileset request was fulfilled, and only when the tileset *)
(* has data type map or vector, a URL template could be selected, the      *)
(* tileset has no inline tileMatrixSet and has a tiling-scheme link; the   *)
(* two requests are never pending together, each document is requested at  *)
(* most once, and with an inline tileMatrixSet there is no second request. *)
(***************************************************************************)
\* some link lets the selector of the data type find a template
TemplateSelectable(sourceInfo, tileSet) ==
  \E i \in 1..Len(tileSet.links) :
    LET link == tileSet.links[i]
    IN \/ /\ tileSet.dataType = "map"
          /\ link.rel = "item"
          /\ link.type[1] = "image/"
       \/ /\ tileSet.dataType = "vector"
          /\ \/ link.rel = "item" /\ link.type \in {MVT, GeoJSON}
             \/ /\ sourceInfo.supportedMediaTypes.def
                /\ Includes(sourceInfo.supportedMediaTypes.v, link.type)

C5_FetchesAreSequential ==
  /\ Len(fetches) <= 2
  /\ Cardinality({i \in 1..Len(fetches) : fetches[i].state = "pending"}) <= 1
  /\ \A i, j \in 1..Len(fetches) : fetches[i].doc = fetches[j].doc => i = j
  /\ Len(fetches) >= 1 =>
       fetches[1].doc = "tileSet" /\ fetches[1].url = <<input.sourceInfo.url>>
  /\ Len(fetches) = 2 =>
       /\ fetches[1].state = "fulfilled"
       /\ fetches[2].doc = "tileMatrixSet"
       /\ LET tileSet == fetches[1].response.v
          IN /\ tileSet.dataType \in {"map", "vector"}
             /\ TemplateSelectable(input.sourceInfo, tileSet)
             /\ ~tileSet.tileMatrixSet.def
             /\ \E i \in 1..Len(tileSet.links) :
                  /\ tileSet.links[i].rel = TilingSchemeRel
                  /\ \A j \in 1..(i - 1) : tileSet.links[j].rel # TilingSchemeRel
                  /\ fetches[2].url = <<input.sourceInfo.url>> \o tileSet.links[i].href

\* a vector tileset without an inline tile matrix set: both requests fulfilled
C5_Witness ==
  /\ pc = "resolved"
  /\ Len(fetches) = 2
  /\ fetches[1].state = "fulfilled"
  /\ fetches[2].state = "fulfilled"
  /\ fetches[1].response.v.dataType = "vector"
  /\ info.state = "built"

====
